---- MODULE Spec2Model ----
(***************************************************************************)
(* A model of the record store of Time Tracker Pro (src/time_tracker.py):  *)
(* the TimeTracker class (time-log table, task table, in-memory cache),    *)
(* its retrying file primitive _safe_file_operation, the start-up repair   *)
(* pass cleanup_corrupted_data and the bulk edit of the analytics tab.     *)
(*                                                                         *)
(* Units.  Timestamps are whole seconds since midnight of day 0.  Minutes  *)
(* are counted in ticks of 1/300 minute, so that both the exact duration   *)
(* (end - start)/60 and its rounding to two decimals are integers:         *)
(*   (end - start)/60 min  =  5 * (end - start) ticks                      *)
(*   round(x, 2) min       =  3 * round(ticks / 3) ticks                   *)
(***************************************************************************)
EXTENDS Integers, Sequences, FiniteSets, TLC

(***************************************************************************)
(* Bounds of the model.                                                    *)
(***************************************************************************)
MaxLogs == 1          \* rows the time-log table may hold before log_time is cut off
MaxTasks == 2         \* rows the task table may hold before add_task is cut off
MaxTotalTicks == 10   \* log_time is cut off where a task total would pass this (1/300 min)

MaxRows == 2          \* data rows of a table handed to _safe_file_operation
MaxLines == 3         \* lines of a time-log file handed to the repair pass
MaxRuns == 2          \* runs of the repair pass on one file
MaxEditRows == 2      \* rows of the time-log table the data editor is opened on
MaxBlocks == 2        \* rows the schedule table may hold before add_schedule_block is cut off
TickMinutes == 5      \* minutes of wall-clock time that pass in one step of the clock

VARIABLES
    \* the store
    logs,      \* time_logs.csv on disk: the sequence of its data rows
    tasks,     \* tasks.csv on disk: the sequence of its data rows
    cache,     \* TimeTracker._data_cache: NoCache or a table
    last,      \* how the call made by the last step ended
    failed,    \* whether a file operation of that call failed after its retries
    \* one caller inside _safe_file_operation
    files,     \* the destination file and its '.tmp' sibling
    pc,        \* where the call is
    attempt,   \* the loop variable of the retry loop
    req,       \* the operation and data of the call
    before,    \* the destination file as it was when the call was made
    \* the repair pass
    raw,       \* time_logs.csv as lines of comma-separated fields
    lines,     \* the lines the last run of the repair pass read
    runs,      \* how many times cleanup_corrupted_data has run on it
    printed,   \* the message the last run printed
    \* the schedule
    blocks,    \* schedule_blocks.csv on disk: the sequence of its data rows
    \* the Pomodoro timer and the page that polls it
    is_running,      \* PomodoroTimer.is_running
    is_break,        \* PomodoroTimer.is_break
    session_count,   \* PomodoroTimer.session_count
    remaining_time,  \* PomodoroTimer.remaining_time, in minutes
    just_completed,  \* PomodoroTimer.just_completed
    elapsed,         \* time.time() - start_time, in minutes
    sounds,          \* the sounds the last poll played
    sessions_before_long_break, \* the value the settings provider holds
    work_minutes,    \* PomodoroTimer.work_duration, in minutes
    \* another session working on the task file
    rmw        \* its read-modify-write of tasks.csv: what it read and will write

storeVars == <<logs, tasks, cache, last, failed>>
ioVars == <<files, pc, attempt, req, before>>
repairVars == <<raw, lines, runs, printed>>
schedVars == <<blocks>>
timerVars == <<is_running, is_break, session_count, remaining_time,
               just_completed, elapsed, sounds, sessions_before_long_break>>

settingVars == <<work_minutes>>
raceVars == <<rmw>>

vars == <<logs, tasks, cache, last, failed, files, pc, attempt, req, before,
          raw, lines, runs, printed, blocks, is_running, is_break,
          session_count, remaining_time, just_completed, elapsed, sounds,
          sessions_before_long_break, work_minutes, rmw>>

\* What the calls on the task and time-log tables leave alone, and so on.
notStore == <<ioVars, repairVars, schedVars, timerVars, settingVars, raceVars>>
notIO == <<storeVars, repairVars, schedVars, timerVars, settingVars, raceVars>>
notRepair == <<storeVars, ioVars, schedVars, timerVars, settingVars, raceVars>>
notSched == <<logs, tasks, cache, ioVars, repairVars, timerVars, settingVars, raceVars>>
notTimer == <<storeVars, ioVars, repairVars, schedVars, settingVars, raceVars>>
notSetting == <<storeVars, ioVars, repairVars, schedVars, raceVars>>
notRace == <<ioVars, repairVars, schedVars, timerVars, settingVars>>

(***************************************************************************)
(* Values.                                                                 *)
(***************************************************************************)
\* _data_cache: None, or a loaded table.
NoCache == [set |-> FALSE, df |-> <<>>]
Cached(df) == [set |-> TRUE, df |-> df]

SecondsPerDay == 86400

\* The instants a caller may pass: the last second of day 0, midnight of day 1
\* and two seconds later, so that spans of 1 s, 2 s and 3 s occur; the first
\* rounds up, the second down, and the third is an exact number of hundredths.
Times == {SecondsPerDay - 1, SecondsPerDay, SecondsPerDay + 2}

\* An empty (NaN) time cell of the edited table.
NoTime == -1

\* Task names a caller may pass, with and without surrounding whitespace.
TaskArgs == {"A", "B", " A", "", " "}

\* str.strip() on the strings of the model.
Strip(s) == CASE s = " A" -> "A"
              [] s = " "  -> ""
              [] OTHER    -> s

\* groupby('task') yields its groups in sorted key order.
NameOrder == <<"A", "B">>

ValidSessionTypes == {"work", "break", "long_break"}

\* (end - start).total_seconds() / 60, in ticks.
DurationOf(st, en) == 5 * (en - st)

\* round(duration, 2), in ticks: the nearest multiple of 3 (no ties occur,
\* since 5 * seconds / 3 is never half-way between two integers).
Round2(d) == 3 * ((d + 1) \div 3)

\* start_time.strftime('%Y-%m-%d'): the calendar day of an instant.
DateOf(t) == t \div SecondsPerDay

RECURSIVE SumDur(_, _)
\* logs_df[logs_df.task == name]['duration_minutes'].sum()
SumDur(rows, name) ==
    IF rows = <<>> THEN 0
    ELSE (IF Head(rows).task = name THEN Head(rows).dur ELSE 0)
         + SumDur(Tail(rows), name)

RECURSIVE SelectRows(_, _)
\* The rows of a table whose index is in keep, in file order.
SelectRows(rows, keep) ==
    IF rows = <<>> THEN <<>>
    ELSE LET n == Len(rows)
             front == SelectRows(SubSeq(rows, 1, n - 1), keep)
         IN IF n \in keep THEN Append(front, rows[n]) ELSE front

HasTask(tbl, name) == \E i \in 1..Len(tbl) : tbl[i].task_name = name

LogNames(rows) == {rows[i].task : i \in 1..Len(rows)}

(***************************************************************************)
(* How a call ended: "ok" when it returned, else the error it raised to    *)
(* its caller and the function that raised it.  The table get_time_logs    *)
(* returns is the one it leaves cached.                                    *)
(***************************************************************************)
Ended(outcome) == [outcome |-> outcome, by |-> ""]
Raised(by, outcome) == [outcome |-> outcome, by |-> by]

(***************************************************************************)
(* TimeTracker.__init__ on a fresh directory: initialize_files writes the  *)
(* three headers, the repair pass leaves a header-only file as it is, and  *)
(* nothing is cached.                                                      *)
(***************************************************************************)
\* No other session is inside a read-modify-write of the task file.
NoCall == [op |-> "none", seen |-> <<>>, df |-> <<>>, over |-> <<>>]

StoreInit ==
    /\ logs = <<>>
    /\ tasks = <<>>
    /\ cache = NoCache
    /\ last = Ended("ok")
    /\ failed = FALSE
    /\ rmw = NoCall

(***************************************************************************)
(* add_task                                                                *)
(***************************************************************************)
\* get_tasks: the rows of the task file, or [] when the read fails.
get_tasks(readOk) == IF readOk THEN tasks ELSE <<>>

AddTaskRow(task_name) ==
    [task_name |-> Strip(task_name), status |-> "active", total |-> 0]

AddTask(task_name, IO) ==
    /\ UNCHANGED notStore
    /\ Len(tasks) < MaxTasks
    /\ IF Strip(task_name) = ""
       THEN /\ last' = Raised("add_task", "ValueError")
            /\ failed' = FALSE
            /\ UNCHANGED <<logs, tasks, cache>>
       ELSE \E readOk \in IO :
            IF HasTask(get_tasks(readOk), task_name)
            THEN /\ last' = Raised("add_task", "ValueError")
                 /\ failed' = ~readOk
                 /\ UNCHANGED <<logs, tasks, cache>>
            ELSE \E appendOk \in IO :
                 IF ~appendOk
                 THEN /\ last' = Raised("add_task", "IOError")
                      /\ failed' = TRUE
                      /\ UNCHANGED <<logs, tasks, cache>>
                 ELSE /\ tasks' = Append(tasks, AddTaskRow(task_name))
                      /\ last' = Ended("ok")
                      /\ failed' = ~readOk
                      /\ UNCHANGED <<logs, cache>>

(***************************************************************************)
(* update_task_total_time: the task table after the call.  Every exception *)
(* is caught and printed, so a failed read or write leaves the file as it  *)
(* was and the caller is not told.                                         *)
(***************************************************************************)
AddToTotals(tbl, task_name, duration) ==
    [i \in 1..Len(tbl) |->
        IF tbl[i].task_name = task_name
        THEN [tbl[i] EXCEPT !.total = @ + duration]
        ELSE tbl[i]]

update_task_total_time(task_name, duration, readOk, writeOk) ==
    IF readOk /\ HasTask(tasks, task_name) /\ writeOk
    THEN AddToTotals(tasks, task_name, duration)
    ELSE tasks

\* Whether a file operation of update_task_total_time failed: the read, or
\* the write it makes when it has found the task.
TotalUpdateFailed(task_name, readOk, writeOk) ==
    ~readOk \/ (HasTask(tasks, task_name) /\ ~writeOk)

(***************************************************************************)
(* log_time                                                                *)
(***************************************************************************)
LogEntry(task, st, en, session_type) ==
    [task  |-> Strip(task),
     start |-> st,
     end   |-> en,
     dur   |-> Round2(DurationOf(st, en)),
     date  |-> DateOf(st),
     stype |-> session_type]

\* _validate_log_entry on a row of typed cells: the task, both times, the
\* duration and the date are non-empty and the times parse.
ValidEntry(r) ==
    /\ Strip(r.task) /= ""
    /\ r.start /= NoTime
    /\ r.end /= NoTime

\* The checks of log_time that raise ValueError before anything is written.
LogTimeRejects(task, st, en) ==
    \/ task = "" \/ Strip(task) = ""
    \/ st >= en
    \/ DurationOf(st, en) <= 0
    \/ ~ValidEntry(LogEntry(task, st, en, "work"))

\* log_time as it would be with the checks made after the row is appended.
LogTimeChecksLate(task, st, en, IO) ==
    /\ Len(logs) < MaxLogs
    /\ logs' = Append(logs, LogEntry(task, st, en, "work"))
    /\ last' = IF LogTimeRejects(task, st, en)
               THEN Raised("log_time", "ValueError") ELSE Ended("ok")
    /\ UNCHANGED <<tasks, cache, failed>>
    /\ UNCHANGED notStore

LogTime(task, st, en, IO) ==
    /\ IF LogTimeRejects(task, st, en)
       THEN /\ last' = Raised("log_time", "ValueError")
            /\ failed' = FALSE
            /\ UNCHANGED <<logs, tasks, cache>>
       ELSE \E appendOk \in IO :
            /\ Len(logs) < MaxLogs
            /\ \A i \in 1..Len(tasks) :
                  tasks[i].total + DurationOf(st, en) <= MaxTotalTicks
            /\ IF ~appendOk
               THEN /\ last' = Raised("log_time", "IOError")
                    /\ failed' = TRUE
                    /\ UNCHANGED <<logs, tasks, cache>>
               ELSE \E readOk, writeOk \in IO :
                    /\ logs' = Append(logs, LogEntry(task, st, en, "work"))
                    /\ tasks' = update_task_total_time(task, DurationOf(st, en),
                                                       readOk, writeOk)
                    /\ last' = Ended("ok")
                    /\ failed' = TotalUpdateFailed(task, readOk, writeOk)
                    /\ UNCHANGED cache
    /\ UNCHANGED notStore

(***************************************************************************)
(* delete_task: never raises; a failed read or write is printed only.      *)
(***************************************************************************)
DeleteTask(task_name, IO) ==
    LET keep == {i \in 1..Len(tasks) : tasks[i].task_name /= task_name}
        df == SelectRows(tasks, keep)
    IN \E readOk, writeOk \in IO :
       /\ UNCHANGED notStore
       /\ tasks' = IF readOk /\ Len(df) < Len(tasks) /\ writeOk THEN df ELSE tasks
       /\ last' = Ended("ok")
       /\ failed' = (~readOk \/ (Len(df) < Len(tasks) /\ ~writeOk))
       /\ UNCHANGED <<logs, cache>>

(***************************************************************************)
(* get_time_logs                                                           *)
(***************************************************************************)
\* The table get_time_logs returns; it is also what it leaves cached.  A
\* failed read is caught and an empty table takes its place.
get_time_logs_or_cache(force_reload, readOk) ==
    IF force_reload \/ cache = NoCache
    THEN (IF readOk THEN logs ELSE cache.df)
    ELSE cache.df
get_time_logs(force_reload, readOk) ==
    IF force_reload \/ cache = NoCache
    THEN (IF readOk THEN logs ELSE <<>>)
    ELSE cache.df

GetTimeLogs(force_reload, IO) ==
    \E readOk \in IO :
    /\ UNCHANGED notStore
    /\ (force_reload \/ cache = NoCache) \/ readOk
    /\ cache' = Cached(get_time_logs(force_reload, readOk))
    /\ last' = Ended("ok")
    /\ failed' = ((force_reload \/ cache = NoCache) /\ ~readOk)
    /\ UNCHANGED <<logs, tasks>>

\* A caller reads the task table with get_tasks.
GetTasks(IO) ==
    \E readOk \in IO :
    /\ last' = Ended("ok")
    /\ failed' = ~readOk
    /\ UNCHANGED <<logs, tasks, cache>>
    /\ UNCHANGED notStore

(***************************************************************************)
(* update_all_task_totals                                                  *)
(***************************************************************************)
SetTotal(tbl, task_name, total_time) ==
    [i \in 1..Len(tbl) |->
        IF tbl[i].task_name = task_name
        THEN [tbl[i] EXCEPT !.total = total_time]
        ELSE tbl[i]]

RECURSIVE ApplyTotals(_, _, _)
\* The loop over the groups of logs_df: a task the task table has gets its
\* total overwritten, one it lacks is appended with name and total only.
ApplyTotals(tasks_df, names, logs_df) ==
    IF names = <<>> THEN tasks_df
    ELSE LET task_name == Head(names)
             total_time == SumDur(logs_df, task_name)
             updated ==
                 IF task_name \notin LogNames(logs_df) THEN tasks_df
                 ELSE IF HasTask(tasks_df, task_name)
                      THEN SetTotal(tasks_df, task_name, total_time)
                      ELSE Append(tasks_df, [task_name |-> task_name,
                                             status |-> "NaN",
                                             total |-> total_time])
         IN ApplyTotals(updated, Tail(names), logs_df)

\* The task table after update_all_task_totals, given the table that
\* get_time_logs() handed it.  Every exception is caught and printed.
update_all_task_totals(logs_df, readOk, writeOk) ==
    IF logs_df = <<>> \/ ~readOk \/ ~writeOk
    THEN tasks
    ELSE ApplyTotals(tasks, NameOrder, logs_df)

UpdateAllTaskTotals(IO) ==
    \E logReadOk \in IO :
    /\ UNCHANGED notStore
    /\ cache = NoCache \/ logReadOk
    /\ LET logs_df == get_time_logs(FALSE, logReadOk)
       IN /\ cache' = Cached(logs_df)
          /\ IF logs_df = <<>>
             THEN /\ tasks' = tasks
                  /\ failed' = (cache = NoCache /\ ~logReadOk)
             ELSE \E readOk, writeOk \in IO :
                  /\ tasks' = update_all_task_totals(logs_df, readOk, writeOk)
                  /\ failed' = (~readOk \/ ~writeOk)
    /\ last' = Ended("ok")
    /\ UNCHANGED logs

(***************************************************************************)
(* The bulk edit of the analytics tab: render_analytics_tab reloads the    *)
(* table, the user edits its rows in the data editor, and "Save Changes"   *)
(* runs validate_time_log_changes and then update_time_logs.               *)
(***************************************************************************)
EditRow(del, r) ==
    [del |-> del, task |-> r.task, start |-> r.start, end |-> r.end,
     dur |-> r.dur, date |-> r.date, stype |-> r.stype]

BlankRow(r) ==
    [del |-> FALSE, task |-> "", start |-> NoTime, end |-> NoTime,
     dur |-> r.dur, date |-> r.date, stype |-> r.stype]

\* What the data editor can make of one row without changing a cell that is
\* kept: leave it, tick its delete box, clear it, or clear its task alone.
RemovalsOf(r) ==
    {EditRow(FALSE, r), EditRow(TRUE, r), BlankRow(r),
     [EditRow(FALSE, r) EXCEPT !.task = ""]}

\* What the data editor can make of one row: the above, or one cell changed.
EditsOf(r) ==
    RemovalsOf(r)
    \cup {[EditRow(FALSE, r) EXCEPT !.task = t] : t \in {"B"}}
    \cup {[EditRow(FALSE, r) EXCEPT !.start = t] : t \in Times}
    \cup {[EditRow(FALSE, r) EXCEPT !.end = t] : t \in Times}
    \cup {[EditRow(FALSE, r) EXCEPT !.stype = s] : s \in {"nap"}}

\* The edits a session of the data editor draws from: removals only, or the
\* change of a cell as well.
EditorEdits(editor, r) == IF editor = "removals" THEN RemovalsOf(r) ELSE EditsOf(r)

\* The empty-row test shared by validate_time_log_changes and update_time_logs.
EmptyTask(e) == Strip(e.task) = ""
EmptyRow(e) == EmptyTask(e) /\ e.start = NoTime /\ e.end = NoTime

\* Whether validate_time_log_changes returns False on a row.
RowFailsOnTaskOnly(e) ==
    /\ ~e.del
    /\ ~EmptyRow(e)
    /\ EmptyTask(e)
RowFails(e) ==
    /\ ~e.del
    /\ ~EmptyRow(e)
    /\ \/ EmptyTask(e)
       \/ e.start >= e.end
       \/ e.stype \notin ValidSessionTypes

validate_time_log_changes(edited_df) ==
    \A i \in 1..Len(edited_df) : ~RowFails(edited_df[i])

\* validate_time_log_changes corrects, in the edited table itself, a duration
\* that is more than 0.1 minute off the one its times give.
AutoCorrect(e) ==
    LET calculated_duration == DurationOf(e.start, e.end)
        diff == IF calculated_duration >= e.dur
                THEN calculated_duration - e.dur
                ELSE e.dur - calculated_duration
    IN IF ~e.del /\ ~EmptyRow(e) /\ diff > 30
       THEN [e EXCEPT !.dur = calculated_duration]
       ELSE e

LogRowOf(e) ==
    [task |-> e.task, start |-> e.start, end |-> e.end,
     dur |-> e.dur, date |-> e.date, stype |-> e.stype]

Recalculated(r) == [r EXCEPT !.dur = Round2(DurationOf(r.start, r.end))]

Dropped(edited_df) ==
    {i \in 1..Len(edited_df) : edited_df[i].del \/ EmptyRow(edited_df[i])}

\* complete_df as update_time_logs writes it: dropped rows gone, the others
\* overwritten by their edited cells, every duration recalculated and rounded.
CompleteDf(edited_df) ==
    LET updated == [i \in 1..Len(edited_df) |-> Recalculated(LogRowOf(edited_df[i]))]
    IN SelectRows(updated, (1..Len(edited_df)) \ Dropped(edited_df))

\* What update_time_logs leaves in the table object that get_time_logs()
\* returned (the cached one): complete_df is that very object until the first
\* drop() rebinds it to a copy, so row updates before the first dropped row,
\* and the recalculation when no row is dropped, are made to the cached table.
CacheAfterEdit(original, edited_df) ==
    IF Dropped(edited_df) = {}
    THEN CompleteDf(edited_df)
    ELSE LET firstDrop == CHOOSE i \in Dropped(edited_df) :
                              \A j \in Dropped(edited_df) : i <= j
         IN [i \in 1..Len(original) |->
                IF i < firstDrop THEN LogRowOf(edited_df[i]) ELSE original[i]]

RECURSIVE EditedTables(_, _)
\* The tables a session of the data editor can hand to "Save Changes": one
\* edit for each row of the table shown.
EditedTables(editor, shown) ==
    IF shown = <<>> THEN {<<>>}
    ELSE LET n == Len(shown)
         IN {Append(front, e) :
                front \in EditedTables(editor, SubSeq(shown, 1, n - 1)),
                e \in EditorEdits(editor, shown[n])}

\* "Save Changes" on an edited table: the files, the cache and the outcome it
\* leaves.  update_time_logs is called only when validate_time_log_changes
\* returns True; it raises when its write fails, and update_all_task_totals,
\* which it calls after the write, prints its own failures.
save_changes(edits, writeOk, tasksReadOk, tasksWriteOk) ==
    IF ~validate_time_log_changes(edits)
    THEN [logs |-> logs, tasks |-> tasks, cache |-> Cached(logs),
          last |-> Ended("rejected"), failed |-> FALSE]
    ELSE LET edited_df == [i \in 1..Len(logs) |-> AutoCorrect(edits[i])]
             cached == CacheAfterEdit(logs, edited_df)
         IN IF ~writeOk
            THEN [logs |-> logs, tasks |-> tasks, cache |-> Cached(cached),
                  last |-> Raised("update_time_logs", "IOError"),
                  failed |-> TRUE]
            ELSE [logs |-> CompleteDf(edited_df),
                  tasks |-> update_all_task_totals(cached, tasksReadOk, tasksWriteOk),
                  cache |-> NoCache,
                  last |-> Ended("ok"),
                  failed |-> (cached /= <<>> /\ (~tasksReadOk \/ ~tasksWriteOk))]

BulkEdit(editor, IO) ==
    \E logReadOk \in IO :
    /\ UNCHANGED notStore
    /\ IF ~logReadOk \/ logs = <<>>
       THEN \* nothing to show: the editor is not rendered
            /\ cache' = Cached(<<>>)
            /\ last' = Ended("ok")
            /\ failed' = ~logReadOk
            /\ UNCHANGED <<logs, tasks>>
       ELSE \E edits \in EditedTables(editor, logs) :
            \E writeOk, tasksReadOk, tasksWriteOk \in IO :
            LET r == save_changes(edits, writeOk, tasksReadOk, tasksWriteOk)
            IN /\ logs' = r.logs
               /\ tasks' = r.tasks
               /\ cache' = r.cache
               /\ last' = r.last
               /\ failed' = r.failed

\* The outcomes of one _safe_file_operation call: TRUE when it returns, FALSE
\* when its last attempt raised.
Works == {TRUE}
MayFail == BOOLEAN

(***************************************************************************)
(* The schedule: add_schedule_block, get_schedule_blocks,                  *)
(* update_schedule_block, delete_schedule_block, _has_time_conflict.  A    *)
(* row holds date, start_time, end_time, task_name, notes and completed;   *)
(* block_type is written as given and read by none of these.               *)
(***************************************************************************)
\* The dates a caller may pass: none, and one day written in the two ways
\* strptime(date, '%Y-%m-%d') accepts, which are different strings.
DateArgs == {"", "2024-01-05"}
ParsesYMD(s) == s = "2024-01-05"

\* The start times update_schedule_block and delete_schedule_block are
\* called with.
TimeArgs == {"09:00", "10:00"}
ParsesHM(s) == s \in {"09:00", "10:00", "11:00"}

\* The (start_time, end_time) pairs add_schedule_block is called with: an
\* hour, the hour next to it, an end before its start, and pairs with a time
\* that strptime(s, '%H:%M') rejects or that is missing.
TimePairs ==
    {<<"09:00", "10:00">>, <<"10:00", "11:00">>, <<"10:00", "09:00">>,
     <<"25:00", "10:00">>, <<"", "10:00">>}

\* strptime(s, '%H:%M') as minutes of the day.
MinuteOf(s) == CASE s = "09:00" -> 540
                 [] s = "10:00" -> 600
                 [] s = "11:00" -> 660
                 [] OTHER -> 0

BlockNames == {"", "A", "B"}

\* The task names update_schedule_block and delete_schedule_block are
\* called with.
KeyNames == {"A", "B"}

\* An optional argument left at its default None.
NoArg == "None"
CompletedArgs == {NoArg, "True"}
NotesArgs == {NoArg, "n"}

BlockRow(date, start_time, end_time, task_name) ==
    [date |-> date, start_time |-> start_time, end_time |-> end_time,
     task_name |-> Strip(task_name), notes |-> "", completed |-> FALSE]

\* get_schedule_blocks(date): the rows of that date, or [] when the read
\* fails.
get_schedule_blocks(date, readOk) ==
    IF readOk
    THEN SelectRows(blocks, {i \in 1..Len(blocks) : blocks[i].date = date})
    ELSE <<>>

\* start_dt < block_end and end_dt > block_start, for some block of the date
has_time_conflict(date, start_time, end_time, readOk) ==
    LET found == get_schedule_blocks(date, readOk)
    IN \E i \in 1..Len(found) :
          /\ MinuteOf(start_time) < MinuteOf(found[i].end_time)
          /\ MinuteOf(end_time) > MinuteOf(found[i].start_time)

\* The checks of add_schedule_block that raise ValueError before the
\* conflict test: a field is empty, or strptime rejects a time or the date.
AddBlockRejects(date, start_time, end_time, task_name) ==
    \/ date = "" \/ start_time = "" \/ end_time = "" \/ task_name = ""
    \/ ~ParsesHM(start_time)
    \/ ~ParsesHM(end_time)
    \/ ~ParsesYMD(date)

AddBlock(date, start_time, end_time, task_name, IO) ==
    /\ IF AddBlockRejects(date, start_time, end_time, task_name)
       THEN /\ last' = Raised("add_schedule_block", "ValueError")
            /\ failed' = FALSE
            /\ UNCHANGED blocks
       ELSE \E readOk \in IO :
            IF has_time_conflict(date, start_time, end_time, readOk)
            THEN /\ last' = Raised("add_schedule_block", "ValueError")
                 /\ failed' = FALSE
                 /\ UNCHANGED blocks
            ELSE \E appendOk \in IO :
                 /\ Len(blocks) < MaxBlocks
                 /\ IF ~appendOk
                    THEN /\ last' = Raised("add_schedule_block", "IOError")
                         /\ failed' = TRUE
                         /\ UNCHANGED blocks
                    ELSE /\ blocks' = Append(blocks, BlockRow(date, start_time,
                                                              end_time, task_name))
                         /\ last' = Ended("ok")
                         /\ failed' = ~readOk
    /\ UNCHANGED notSched

\* A caller reads the schedule of a date with get_schedule_blocks.
GetScheduleBlocks(date, IO) ==
    \E readOk \in IO :
    /\ last' = Ended("ok")
    /\ failed' = ~readOk
    /\ UNCHANGED blocks
    /\ UNCHANGED notSched

\* mask = (date == date) & (start_time == start_time) & (task_name == task_name)
BlockMatchesByStart(b, date, start_time, task_name) ==
    b.date = date /\ b.start_time = start_time
BlockMatches(b, date, start_time, task_name) ==
    b.date = date /\ b.start_time = start_time /\ b.task_name = task_name

Mask(date, start_time, task_name) ==
    {i \in 1..Len(blocks) : BlockMatches(blocks[i], date, start_time, task_name)}

\* df.loc[mask, 'completed'] = completed; df.loc[mask, 'notes'] = notes
Updated(b, completed, notes) ==
    [b EXCEPT !.completed = IF completed = NoArg THEN @ ELSE TRUE,
              !.notes = IF notes = NoArg THEN @ ELSE notes]

\* update_schedule_block: the file after the call and the value returned.
\* Every exception is caught and False returned.
update_schedule_block(date, start_time, task_name, completed, notes, readOk, writeOk) ==
    LET mask == Mask(date, start_time, task_name)
    IN IF readOk /\ mask /= {} /\ writeOk
       THEN [file |-> [i \in 1..Len(blocks) |->
                         IF i \in mask
                         THEN Updated(blocks[i], completed, notes)
                         ELSE blocks[i]],
             ret |-> "true"]
       ELSE [file |-> blocks, ret |-> "false"]

\* delete_schedule_block: the file after the call and the value returned.
delete_schedule_block(date, start_time, task_name, readOk, writeOk) ==
    LET mask == Mask(date, start_time, task_name)
    IN IF readOk /\ mask /= {} /\ writeOk
       THEN [file |-> SelectRows(blocks, (1..Len(blocks)) \ mask),
             ret |-> "true"]
       ELSE [file |-> blocks, ret |-> "false"]

\* The outcomes of the write of either call: it is made only when the read
\* has succeeded and rows were found.
WriteOutcomes(date, start_time, task_name, readOk, IO) ==
    IF readOk /\ Mask(date, start_time, task_name) /= {} THEN IO ELSE {TRUE}

\* Whether a file operation of either call failed: the read, or the write
\* made when rows were found.
BlockCallFailed(date, start_time, task_name, readOk, writeOk) ==
    ~readOk \/ (Mask(date, start_time, task_name) /= {} /\ ~writeOk)

UpdateBlock(date, start_time, task_name, completed, notes, IO) ==
    /\ \E readOk \in IO :
       \E writeOk \in WriteOutcomes(date, start_time, task_name, readOk, IO) :
       LET r == update_schedule_block(date, start_time, task_name, completed,
                                      notes, readOk, writeOk)
       IN /\ blocks' = r.file
          /\ last' = Ended(r.ret)
          /\ failed' = BlockCallFailed(date, start_time, task_name,
                                       readOk, writeOk)
    /\ UNCHANGED notSched

DeleteBlock(date, start_time, task_name, IO) ==
    /\ \E readOk \in IO :
       \E writeOk \in WriteOutcomes(date, start_time, task_name, readOk, IO) :
       LET r == delete_schedule_block(date, start_time, task_name,
                                      readOk, writeOk)
       IN /\ blocks' = r.file
          /\ last' = Ended(r.ret)
          /\ failed' = BlockCallFailed(date, start_time, task_name,
                                       readOk, writeOk)
    /\ UNCHANGED notSched

\* The schedule file as initialize_files writes it: the header alone.
SchedIdle == blocks = <<>>

(***************************************************************************)
(* PomodoroTimer and the page code that drives it.  Times are in minutes.  *)
(* elapsed stands for time.time() - start_time; beyond the longest phase   *)
(* every reading of it gives a remaining time of 0, so it is kept to that. *)
(***************************************************************************)
work_duration == 20
break_duration == 5
long_break_duration == 10

\* "if self.session_count >= 4": the literal of update_timer and
\* complete_session.
long_break_after == 4

\* The values the settings provider may hold for sessions_before_long_break:
\* its default and one the settings page can save in its place.
default_sessions == 4
SessionSettings == {default_sessions, default_sessions - 2}

\* DEFAULT_WORK_DURATION of config.py, which the settings hold until the
\* settings page saves another value.
DEFAULT_WORK_DURATION == 25
WorkSettings == {work_duration, DEFAULT_WORK_DURATION}

LongestPhase == work_minutes

Max0(x) == IF x >= 0 THEN x ELSE 0
MinOf(x, y) == IF x <= y THEN x ELSE y

NoSound == "none"
WorkCompleteSounds == "completion, celebration"
BreakCompleteSounds == "startup"

\* PomodoroTimer.__init__
TimerInit ==
    /\ is_running = FALSE
    /\ is_break = FALSE
    /\ session_count = 0
    /\ work_minutes = work_duration
    /\ remaining_time = work_duration
    /\ just_completed = FALSE
    /\ elapsed = 0
    /\ sounds = NoSound
    /\ sessions_before_long_break \in SessionSettings

TimerIdle ==
    /\ TimerInit
    /\ sessions_before_long_break = default_sessions

\* main() loads the work duration of the settings into the timer, on every
\* run of the page; the remaining time is not touched.
LoadSettings(work) ==
    /\ work_minutes' = work
    /\ UNCHANGED timerVars
    /\ UNCHANGED notSetting

\* start_timer, behind the Start button, which is shown while the timer is
\* not running.
StartTimer ==
    /\ ~is_running
    /\ is_running' = TRUE
    /\ elapsed' = 0
    /\ sounds' = NoSound
    /\ UNCHANGED <<is_break, session_count, remaining_time, just_completed,
                   sessions_before_long_break>>
    /\ UNCHANGED notTimer

\* stop_timer, behind the Pause button, which is shown while the timer runs.
StopTimer ==
    /\ is_running
    /\ is_running' = FALSE
    /\ sounds' = NoSound
    /\ UNCHANGED <<is_break, session_count, remaining_time, just_completed,
                   elapsed, sessions_before_long_break>>
    /\ UNCHANGED notTimer

\* reset_timer, behind the Reset button.
ResetTimerKeepsCount ==
    /\ is_running' = FALSE
    /\ is_break' = FALSE
    /\ remaining_time' = work_minutes
    /\ sounds' = NoSound
    /\ UNCHANGED <<session_count, just_completed, elapsed,
                   sessions_before_long_break>>
    /\ UNCHANGED notTimer
ResetTimer ==
    /\ is_running' = FALSE
    /\ is_break' = FALSE
    /\ session_count' = 0
    /\ remaining_time' = work_minutes
    /\ sounds' = NoSound
    /\ UNCHANGED <<just_completed, elapsed, sessions_before_long_break>>
    /\ UNCHANGED notTimer

\* Wall-clock time passes, the timer running or not.
Tick ==
    /\ elapsed < LongestPhase
    /\ elapsed' = MinOf(elapsed + TickMinutes, LongestPhase)
    /\ UNCHANGED <<is_running, is_break, session_count, remaining_time,
                   just_completed, sounds, sessions_before_long_break>>
    /\ UNCHANGED notTimer

\* current_duration of update_timer
current_duration ==
    IF is_break /\ session_count >= long_break_after THEN long_break_duration
    ELSE IF is_break THEN break_duration
    ELSE work_minutes

\* remaining_time after update_timer
update_timer_always == Max0(current_duration - elapsed)
update_timer ==
    IF is_running THEN Max0(current_duration - elapsed) ELSE remaining_time

\* The update_timer call of the timer tab.
UpdateTimer ==
    /\ remaining_time' = update_timer
    /\ sounds' = NoSound
    /\ UNCHANGED <<is_running, is_break, session_count, just_completed,
                   elapsed, sessions_before_long_break>>
    /\ UNCHANGED notTimer

\* complete_session: the phase, count and remaining time it leaves.
complete_session ==
    IF ~is_break
    THEN IF session_count + 1 >= long_break_after
         THEN [is_break |-> TRUE, session_count |-> 0,
               remaining_time |-> long_break_duration]
         ELSE [is_break |-> TRUE, session_count |-> session_count + 1,
               remaining_time |-> break_duration]
    ELSE [is_break |-> FALSE, session_count |-> session_count,
          remaining_time |-> work_minutes]

\* Whether check_timer_completion completes the session: the timer runs,
\* has no time left, and the completion flag is down.
PollCompletes == is_running /\ update_timer <= 0 /\ ~just_completed

\* The sounds check_timer_completion plays after complete_session: it
\* tests is_break as complete_session has left it.
SoundsAfter(now_break) ==
    IF now_break THEN BreakCompleteSounds ELSE WorkCompleteSounds

\* check_timer_completion as it would be if complete_session left the timer
\* running.
PollKeepsRunning ==
    /\ IF PollCompletes
       THEN /\ just_completed' = TRUE
            /\ is_break' = complete_session.is_break
            /\ session_count' = complete_session.session_count
            /\ remaining_time' = complete_session.remaining_time
            /\ sounds' = SoundsAfter(complete_session.is_break)
            /\ UNCHANGED is_running
       ELSE /\ remaining_time' = update_timer
            /\ sounds' = NoSound
            /\ UNCHANGED <<is_running, is_break, session_count, just_completed>>
    /\ UNCHANGED <<elapsed, sessions_before_long_break>>
    /\ UNCHANGED notTimer

\* check_timer_completion, called at the top of every run of the page.
Poll ==
    /\ IF PollCompletes
       THEN /\ is_running' = FALSE
            /\ just_completed' = TRUE
            /\ is_break' = complete_session.is_break
            /\ session_count' = complete_session.session_count
            /\ remaining_time' = complete_session.remaining_time
            /\ sounds' = SoundsAfter(complete_session.is_break)
       ELSE /\ remaining_time' = update_timer
            /\ sounds' = NoSound
            /\ UNCHANGED <<is_running, is_break, session_count, just_completed>>
    /\ UNCHANGED <<elapsed, sessions_before_long_break>>
    /\ UNCHANGED notTimer

\* The timer tab, having shown the completion message, lowers the flag.
ShowCompletion ==
    /\ just_completed
    /\ just_completed' = FALSE
    /\ sounds' = NoSound
    /\ UNCHANGED <<is_running, is_break, session_count, remaining_time,
                   elapsed, sessions_before_long_break>>
    /\ UNCHANGED notTimer

(***************************************************************************)
(* _safe_file_operation, step by step.  A file is a sequence of lines, the *)
(* first of which is the header; a file opened for writing and not yet     *)
(* written has no line at all.                                             *)
(***************************************************************************)
max_retries == 3

Dest == "time_logs.csv"

\* temp_file = file_path + '.tmp'
TempFileOfSame(file_path) == file_path
TempFileOf(file_path) == "time_logs.csv.tmp"

Paths == {Dest, "time_logs.csv.tmp"}

Absent == [exists |-> FALSE, lines |-> <<>>]
File(ls) == [exists |-> TRUE, lines |-> ls]

IORows == {"r1", "r2"}

\* Every table of at most MaxRows rows, as the lines to_csv writes.
Tables ==
    UNION {{<<"header">> \o rows : rows \in [1..n -> IORows]} : n \in 0..MaxRows}

NoData == [given |-> FALSE, lines |-> <<>>]
Data(ls) == [given |-> TRUE, lines |-> ls]

Requests ==
    {[op |-> "read", data |-> NoData]}
    \cup {[op |-> "write", data |-> Data(t)] : t \in Tables}
    \cup {[op |-> "append", data |-> Data(<<r>>)] : r \in IORows}
    \cup {[op |-> o, data |-> NoData] : o \in {"write", "append"}}

Running == {"attempt", "writing", "move", "except"}
Finished == {"returned", "raised"}

IOIdle ==
    /\ files = [p \in Paths |-> Absent]
    /\ pc = "idle"
    /\ attempt = 0
    /\ req = [op |-> "none", data |-> NoData]
    /\ before = Absent

IOInit ==
    /\ \E t \in Tables : files = [p \in Paths |-> IF p = Dest THEN File(t) ELSE Absent]
    /\ pc = "attempt"
    /\ attempt = 0
    /\ req \in Requests
    /\ before = files[Dest]

\* An exception was raised inside the try block.
Raise ==
    /\ pc' = "except"
    /\ UNCHANGED <<attempt, req, before>>

\* pd.read_csv(file_path): raises on a missing or empty file, or when the
\* read fails.
DoRead ==
    /\ UNCHANGED notIO
    /\ pc = "attempt" /\ req.op = "read"
    /\ \/ /\ files[Dest].exists /\ files[Dest].lines /= <<>>
          /\ pc' = "returned"
          /\ UNCHANGED <<files, attempt, req, before>>
       \/ Raise /\ UNCHANGED files

\* data.to_csv(temp_file) opens the temporary file for writing, ...
OpenTemp ==
    /\ UNCHANGED notIO
    /\ pc = "attempt" /\ req.op = "write" /\ req.data.given
    /\ \/ /\ files' = [files EXCEPT ![TempFileOf(Dest)] = File(<<>>)]
          /\ pc' = "writing"
          /\ UNCHANGED <<attempt, req, before>>
       \/ Raise /\ UNCHANGED files

\* ... writes the header and the rows to it, line after line, ...
WriteTemp ==
    /\ UNCHANGED notIO
    /\ pc = "writing"
    /\ LET temp == TempFileOf(Dest)
           n == Len(files[temp].lines)
       IN \/ /\ n < Len(req.data.lines)
             /\ files' = [files EXCEPT ![temp] = File(Append(@.lines, req.data.lines[n + 1]))]
             /\ UNCHANGED <<pc, attempt, req, before>>
          \/ /\ n = Len(req.data.lines)
             /\ pc' = "move"
             /\ UNCHANGED <<files, attempt, req, before>>
          \/ Raise /\ UNCHANGED files

\* ... and shutil.move(temp_file, file_path) renames it over the destination.
Move ==
    /\ UNCHANGED notIO
    /\ pc = "move"
    /\ LET temp == TempFileOf(Dest)
       IN \/ /\ files' = [p \in Paths |->
                            IF p = Dest THEN files[temp]
                            ELSE IF p = temp THEN Absent
                            ELSE files[p]]
             /\ pc' = "returned"
             /\ UNCHANGED <<attempt, req, before>>
          \/ Raise /\ UNCHANGED files

\* open(file_path, 'a'), flock, writer.writerow(data)
DoAppend ==
    /\ UNCHANGED notIO
    /\ pc = "attempt" /\ req.op = "append" /\ req.data.given
    /\ \/ /\ files' = [files EXCEPT ![Dest] = File(@.lines \o req.data.lines)]
          /\ pc' = "returned"
          /\ UNCHANGED <<attempt, req, before>>
       \/ Raise /\ UNCHANGED files

\* The for loop moves on to its next iteration, or ends and the function
\* returns None.
NextIteration ==
    IF attempt + 1 < max_retries
    THEN attempt' = attempt + 1 /\ pc' = "attempt"
    ELSE attempt' = attempt /\ pc' = "returned"

\* 'write' or 'append' without data: no branch of the try block is taken.
NoBranch ==
    /\ UNCHANGED notIO
    /\ pc = "attempt" /\ req.op \in {"write", "append"} /\ ~req.data.given
    /\ NextIteration
    /\ UNCHANGED <<files, req, before>>

\* if attempt == max_retries - 1: raise
IsLastAttemptNever(a) == a = max_retries
IsLastAttempt(a) == a = max_retries - 1

\* The except block: re-raise on the last attempt, else sleep and go on.
Except ==
    /\ UNCHANGED notIO
    /\ pc = "except"
    /\ IF IsLastAttempt(attempt)
       THEN pc' = "raised" /\ attempt' = attempt
       ELSE NextIteration
    /\ UNCHANGED <<files, req, before>>

\* The process dies where it is.
Crash ==
    /\ UNCHANGED notIO
    /\ pc \in Running
    /\ pc' = "crashed"
    /\ UNCHANGED <<files, attempt, req, before>>

\* The caller, having got its answer, makes another call.
NewCall ==
    /\ UNCHANGED notIO
    /\ pc \in Finished
    /\ Len(files[Dest].lines) <= MaxRows
    /\ req' \in Requests
    /\ pc' = "attempt"
    /\ attempt' = 0
    /\ before' = files[Dest]
    /\ UNCHANGED files

IOStep ==
    \/ DoRead
    \/ OpenTemp
    \/ WriteTemp
    \/ Move
    \/ DoAppend
    \/ NoBranch
    \/ Except

IONext ==
    \/ DoRead
    \/ OpenTemp
    \/ WriteTemp
    \/ Move
    \/ DoAppend
    \/ NoBranch
    \/ Except
    \/ Crash
    \/ NewCall

\* No repair pass is running.
RepairIdle ==
    /\ raw = <<>>
    /\ lines = <<>>
    /\ runs = 0
    /\ printed = "nothing"

\* A call that is not killed goes on executing: its steps are weakly fair.
InitIO == StoreInit /\ IOInit /\ RepairIdle /\ SchedIdle /\ TimerIdle

SpecIO ==
    /\ InitIO
    /\ [][IONext]_vars
    /\ WF_vars(IOStep)

(***************************************************************************)
(* cleanup_corrupted_data.  A line is the sequence of the fields between   *)
(* its commas; an empty line is the one field "".                          *)
(***************************************************************************)
expected_header ==
    <<"task", "start_time", "end_time", "duration_minutes", "date", "session_type">>

GoodRow == <<"A", "2024-01-01 09:00:00", "2024-01-01 09:25:00", "25.0", "2024-01-01", "work">>

\* The lines a file may hold: empty and blank lines, the header, a good row,
\* a good row with cells around it padded or left empty, rows with stray
\* trailing columns (good and bad), a short row and rows with a bad cell.
LineKinds ==
    { <<"">>,
      <<" ">>,
      expected_header,
      GoodRow,
      <<" A", "2024-01-01 09:00:00", "2024-01-01 09:25:00", "25.0", "2024-01-01", "">>,
      GoodRow \o <<"", "", "">>,
      <<"A", "09:00", "09:25", "25.0", "2024-01-01", "work", "", "", "">>,
      <<"A", "2024-01-01 09:00:00">>,
      <<" ", "2024-01-01 09:00:00", "2024-01-01 09:25:00", "25.0", "2024-01-01", "work">>,
      <<"A", "2024-01-01 09:00:00", "2024-01-01 09:25:00", "abc", "2024-01-01", "work">> }

\* Which strings of the model strptime and float accept.
ParsesDateTime(s) == s \in {"2024-01-01 09:00:00", "2024-01-01 09:25:00"}
ParsesDate(s) == s \in {"2024-01-01"}
ParsesFloat(s) == s \in {"25.0"}

\* line.strip(): whitespace goes from the front of the first field and from
\* the back of the last.
StripLine(line) ==
    [k \in 1..Len(line) |->
        IF k = 1 \/ k = Len(line) THEN Strip(line[k]) ELSE line[k]]

\* _validate_log_entry on the fields of a line
validate_log_entry(parts) ==
    /\ Len(parts) = 6
    /\ \A k \in 1..5 : Strip(parts[k]) /= ""
    /\ ParsesDateTime(Strip(parts[2]))
    /\ ParsesDateTime(Strip(parts[3]))
    /\ ParsesDate(Strip(parts[5]))
    /\ ParsesFloat(Strip(parts[4]))

\* The header test of the loop: "if i == 0", i counting every line read.
IsHeaderLine(i, cleaned_lines) == i = 0

\* Whether a data row is kept: it has the six columns, any further ones
\* being cut off, and the six pass _validate_log_entry.
KeepsRowOfSixOnly(parts) ==
    Len(parts) = 6 /\ validate_log_entry(SubSeq(parts, 1, 6))
KeepsRow(parts) ==
    Len(parts) >= 6 /\ validate_log_entry(SubSeq(parts, 1, 6))

RECURSIVE CleanFrom(_, _, _)
\* The loop over enumerate(lines), from 0-based index i on.
CleanFrom(read, i, cleaned_lines) ==
    IF i >= Len(read) THEN cleaned_lines
    ELSE LET line == StripLine(read[i + 1])
             parts == line
             clean_parts == SubSeq(parts, 1, 6)
         IN IF line = <<"">>
            THEN CleanFrom(read, i + 1, cleaned_lines)
            ELSE IF IsHeaderLine(i, cleaned_lines)
            THEN CleanFrom(read, i + 1, Append(cleaned_lines, expected_header))
            ELSE IF KeepsRow(parts)
            THEN CleanFrom(read, i + 1, Append(cleaned_lines, clean_parts))
            ELSE CleanFrom(read, i + 1, cleaned_lines)

Cleaned(read) == CleanFrom(read, 0, <<>>)

RepairInit ==
    /\ raw \in UNION {[1..n -> LineKinds] : n \in 0..MaxLines}
    /\ lines = <<>>
    /\ runs = 0
    /\ printed = "nothing"

\* One run of the pass.  Whatever goes wrong is caught and printed; a write
\* that fails leaves what had been written of the file opened with 'w'.
Repair ==
    /\ UNCHANGED notRepair
    /\ runs < MaxRuns
    /\ runs' = runs + 1
    /\ \E readOk, writeOk \in BOOLEAN :
       IF ~readOk
       THEN /\ printed' = "error"
            /\ UNCHANGED <<raw, lines>>
       ELSE IF writeOk
       THEN /\ printed' = "cleaned"
            /\ lines' = raw
            /\ raw' = Cleaned(raw)
       ELSE /\ printed' = "error"
            /\ lines' = raw
            /\ \E n \in 0..Len(Cleaned(raw)) : raw' = SubSeq(Cleaned(raw), 1, n)

\* The process is killed while the pass writes the cleaned lines back: the
\* file, truncated when it was opened with 'w', holds the lines written so
\* far, and nothing is printed.
RepairCrash ==
    /\ UNCHANGED notRepair
    /\ runs < MaxRuns
    /\ runs' = runs + 1
    /\ printed' = "nothing"
    /\ lines' = raw
    /\ \E n \in 0..Len(Cleaned(raw)) : raw' = SubSeq(Cleaned(raw), 1, n)

RepairNext == Repair

InitRepair == StoreInit /\ IOIdle /\ RepairInit /\ SchedIdle /\ TimerIdle

SpecRepair ==
    /\ InitRepair
    /\ [][RepairNext]_vars

(***************************************************************************)
(* A second session on the same files.  Its read-modify-write of tasks.csv *)
(* is two steps: the read, from which it computes the table to write, and  *)
(* the write, whose rename puts that table in the place of the file.  The  *)
(* write takes no lock, and the lock of an append is held by appends only, *)
(* so add_task of the first session may run between the two.               *)
(***************************************************************************)
InCall == rmw.op \notin {"none", "done"}

Reads(op, df) == [op |-> op, seen |-> tasks, df |-> df, over |-> <<>>]

\* delete_task has read the task table and found the task.
OtherDeleteReads(task_name) ==
    LET keep == {i \in 1..Len(tasks) : tasks[i].task_name /= task_name}
        df == SelectRows(tasks, keep)
    IN /\ ~InCall
       /\ Len(df) < Len(tasks)
       /\ rmw' = Reads("delete_task", df)
       /\ UNCHANGED storeVars
       /\ UNCHANGED notRace

\* log_time has appended its row; its update_task_total_time has read the
\* task table and found the task.
OtherLogTimeReads(task, st, en) ==
    /\ ~InCall
    /\ ~LogTimeRejects(task, st, en)
    /\ Len(logs) < MaxLogs
    /\ \A i \in 1..Len(tasks) :
          tasks[i].total + DurationOf(st, en) <= MaxTotalTicks
    /\ HasTask(tasks, task)
    /\ logs' = Append(logs, LogEntry(task, st, en, "work"))
    /\ rmw' = Reads("update_task_total_time",
                    AddToTotals(tasks, task, DurationOf(st, en)))
    /\ UNCHANGED <<tasks, cache, last, failed>>
    /\ UNCHANGED notRace

\* update_all_task_totals has read the time logs, which are not empty, and
\* the task table.
OtherRecomputeReads ==
    /\ ~InCall
    /\ logs /= <<>>
    /\ rmw' = Reads("update_all_task_totals", ApplyTotals(tasks, NameOrder, logs))
    /\ UNCHANGED storeVars
    /\ UNCHANGED notRace

\* The write as it would be if it kept the rows appended since the read.
OtherRenamesKeepingAppended ==
    /\ InCall
    /\ tasks' = rmw.df \o SubSeq(tasks, Len(rmw.seen) + 1, Len(tasks))
    /\ rmw' = [rmw EXCEPT !.op = "done", !.over = tasks]
    /\ UNCHANGED <<logs, cache, last, failed>>
    /\ UNCHANGED notRace
\* data.to_csv(temp_file); shutil.move(temp_file, file_path): the table
\* computed from the read takes the place of the file as it now is.
OtherRenames ==
    /\ InCall
    /\ tasks' = rmw.df
    /\ rmw' = [rmw EXCEPT !.op = "done", !.over = tasks]
    /\ UNCHANGED <<logs, cache, last, failed>>
    /\ UNCHANGED notRace

(***************************************************************************)
(* The data editor opened on a store that add_task and log_time have       *)
(* filled: tasks A and B, and up to MaxEditRows rows logged for them.       *)
(***************************************************************************)
LoggedRows ==
    {LogEntry(a[1], a[2], a[3], "work") :
        a \in {x \in KeyNames \X Times \X Times : x[2] < x[3]}}

RECURSIVE LoggedTotal(_, _)
\* The total log_time has added up for a task: the unrounded durations.
LoggedTotal(rows, name) ==
    IF rows = <<>> THEN 0
    ELSE (IF Head(rows).task = name
          THEN DurationOf(Head(rows).start, Head(rows).end) ELSE 0)
         + LoggedTotal(Tail(rows), name)

InitEdit ==
    /\ logs \in UNION {[1..n -> LoggedRows] : n \in 1..MaxEditRows}
    /\ tasks = [i \in 1..Len(NameOrder) |->
                  [AddTaskRow(NameOrder[i]) EXCEPT
                      !.total = LoggedTotal(logs, NameOrder[i])]]
    /\ cache = NoCache
    /\ last = Ended("ok")
    /\ failed = FALSE
    /\ rmw = NoCall
    /\ IOIdle /\ RepairIdle /\ SchedIdle /\ TimerIdle

NextEdit ==
    \/ BulkEdit("cells", Works)
    \/ \E f \in BOOLEAN : GetTimeLogs(f, Works)

SpecEdit == InitEdit /\ [][NextEdit]_vars

\* The repair pass run by a process that may be killed while it writes.
RepairCrashNext ==
    \/ Repair
    \/ RepairCrash

SpecRepairCrash == InitRepair /\ [][RepairCrashNext]_vars

(***************************************************************************)
(* The store in use: any sequence of calls, every file operation working.  *)
(***************************************************************************)
Init == StoreInit /\ IOIdle /\ RepairIdle /\ SchedIdle /\ TimerIdle

Next ==
    \/ \E t \in TaskArgs : AddTask(t, Works)
    \/ \E t \in TaskArgs, st, en \in Times : LogTime(t, st, en, Works)
    \/ \E t \in TaskArgs : DeleteTask(t, Works)
    \/ \E f \in BOOLEAN : GetTimeLogs(f, Works)
    \/ UpdateAllTaskTotals(Works)
    \/ BulkEdit("removals", Works)

Spec == Init /\ [][Next]_vars

\* The first session adds tasks while the second deletes tasks, logs time
\* and recomputes the totals.
NextRace ==
    \/ \E t \in KeyNames : AddTask(t, Works)
    \/ \E t \in KeyNames : OtherDeleteReads(t)
    \/ \E t \in KeyNames, st, en \in Times : OtherLogTimeReads(t, st, en)
    \/ OtherRecomputeReads
    \/ OtherRenames

SpecRace == Init /\ [][NextRace]_vars

(***************************************************************************)
(* The operations that write the task, log and schedule files, called in   *)
(* any order while reads and writes may fail after their retries.          *)
(***************************************************************************)
NextFaulty ==
    \/ \E t \in TaskArgs : AddTask(t, MayFail)
    \/ \E t \in TaskArgs, st, en \in Times : LogTime(t, st, en, MayFail)
    \/ \E t \in TaskArgs : DeleteTask(t, MayFail)
    \/ UpdateAllTaskTotals(MayFail)
    \/ \E d \in DateArgs, p \in TimePairs, n \in BlockNames :
          AddBlock(d, p[1], p[2], n, MayFail)

SpecFaulty == Init /\ [][NextFaulty]_vars

(***************************************************************************)
(* The store being read while reads may fail after their retries and       *)
(* writes go through.  The schedule is as earlier calls have left it:      *)
(* empty, or holding a block.                                              *)
(***************************************************************************)
InitReads ==
    /\ StoreInit /\ IOIdle /\ RepairIdle /\ TimerIdle
    /\ blocks \in {<<>>, <<BlockRow("2024-01-05", "09:00", "10:00", "A")>>}

NextReads ==
    \/ \E t \in TaskArgs : AddTask(t, Works)
    \/ \E t \in TaskArgs, st, en \in Times : LogTime(t, st, en, Works)
    \/ \E f \in BOOLEAN : GetTimeLogs(f, MayFail)
    \/ GetTasks(MayFail)
    \/ \E d \in DateArgs : GetScheduleBlocks(d, MayFail)

SpecReads == InitReads /\ [][NextReads]_vars

(***************************************************************************)
(* The schedule in use: any sequence of calls, reads and writes failing    *)
(* or not.                                                                 *)
(***************************************************************************)
NextSched ==
    \/ \E d \in DateArgs, p \in TimePairs, n \in BlockNames :
          AddBlock(d, p[1], p[2], n, MayFail)
    \/ \E d \in DateArgs, t \in TimeArgs, n \in KeyNames,
          c \in CompletedArgs, x \in NotesArgs :
          UpdateBlock(d, t, n, c, x, MayFail)
    \/ \E d \in DateArgs, t \in TimeArgs, n \in KeyNames :
          DeleteBlock(d, t, n, MayFail)

SpecSched == Init /\ [][NextSched]_vars

(***************************************************************************)
(* The timer in use.  The page polls it on every run and a running page    *)
(* goes on being run, so the poll and the lowering of the flag are weakly  *)
(* fair; the clock and the user's buttons are not.                         *)
(***************************************************************************)
InitTimer == StoreInit /\ IOIdle /\ RepairIdle /\ SchedIdle /\ TimerInit

NextTimer ==
    \/ StartTimer
    \/ StopTimer
    \/ ResetTimer
    \/ Tick
    \/ UpdateTimer
    \/ Poll
    \/ ShowCompletion

SpecTimer ==
    /\ InitTimer
    /\ [][NextTimer]_vars
    /\ WF_vars(Poll)
    /\ WF_vars(ShowCompletion)

(***************************************************************************)
(* The timer in use while main() loads the settings into it on every run   *)
(* of the page and the settings page may save another work duration.       *)
(***************************************************************************)
NextSettings ==
    \/ \E work \in WorkSettings : LoadSettings(work)
    \/ StartTimer
    \/ StopTimer
    \/ ResetTimer
    \/ Tick
    \/ UpdateTimer
    \/ Poll
    \/ ShowCompletion

SpecSettings == InitTimer /\ [][NextSettings]_vars

(***************************************************************************)
(* Properties of the store.                                                *)
(***************************************************************************)
TotalsMatchLogs(tbl, rows) ==
    \A i \in 1..Len(tbl) : tbl[i].total = SumDur(rows, tbl[i].task_name)

\* C1: after any step that wrote the time-log file (log_time's append, the
\* bulk edit's write), get_time_logs() without force_reload returns the rows
\* now on disk, not a table cached before the write.
C1_GetAfterWriteIsFresh ==
    [][logs' /= logs => get_time_logs(FALSE, TRUE)' = logs']_vars

Abs(x) == IF x >= 0 THEN x ELSE -x

\* C2: in every reachable state each task row's total_time_minutes equals the
\* sum of duration_minutes over the time-log rows of its task_name, to within
\* the 0.01 min per row that rounding a row's duration to two decimals can
\* account for.
C2_TotalsAlwaysMatchLogs ==
    \A i \in 1..Len(tasks) :
        Abs(tasks[i].total - SumDur(logs, tasks[i].task_name)) <= 3 * Len(logs)

\* C3: immediately after update_all_task_totals returns, every task row's
\* total_time_minutes equals the sum of duration_minutes of the time-log rows
\* of its task_name (0 for a task without rows, or when the table is empty).
C3_RecomputeMakesTotalsMatch ==
    [][UpdateAllTaskTotals(Works) => TotalsMatchLogs(tasks', logs')]_vars

\* C9: log_time called with an empty or whitespace-only task, or with
\* start >= end, raises ValueError and leaves the time-log file and the task
\* file as they were.
C9_InvalidLogTimeChangesNothing ==
    [][\/ (last' = Raised("log_time", "ValueError") /\ logs' = logs /\ tasks' = tasks)
       \/ ~\E t \in TaskArgs, st, en \in Times :
              /\ t \in {"", " "} \/ st >= en
              /\ LogTime(t, st, en, Works)]_vars

\* C9 witness: log_time has just raised ValueError on a store that holds a
\* time-log row and a task with a non-zero total.
C9_Witness ==
    /\ last = Raised("log_time", "ValueError")
    /\ Len(logs) > 0
    /\ \E i \in 1..Len(tasks) : tasks[i].total > 0

\* C10: a successful log_time(task, start, end) appends exactly one row, with
\* duration_minutes = (end - start)/60 (to the two decimals kept, 0.01 min)
\* and date = the date of start; a task row whose task_name equals the row's
\* task gains the appended duration (to the same 0.01 min), every other task
\* row is unchanged, and no task row is created.
C10_LogTimeAppendsAndAddsToTotal ==
    [][\A t \in TaskArgs, st, en \in Times :
          (LogTime(t, st, en, Works) /\ last'.outcome = "ok" /\ logs' /= logs)
          => /\ Len(logs') = Len(logs) + 1
             /\ SubSeq(logs', 1, Len(logs)) = logs
             /\ LET row == logs'[Len(logs')]
                IN /\ Abs(row.dur - DurationOf(st, en)) <= 3
                   /\ row.date = DateOf(st)
                   /\ Len(tasks') = Len(tasks)
                   /\ \A i \in 1..Len(tasks) :
                        /\ tasks'[i].task_name = tasks[i].task_name
                        /\ IF tasks[i].task_name = row.task
                           THEN Abs(tasks'[i].total - tasks[i].total - row.dur) <= 3
                           ELSE tasks'[i].total = tasks[i].total]_vars

\* C11: task_name is a unique key of the task table: no reachable state holds
\* two task rows with the same task_name.
C11_TaskNamesUnique ==
    \A i, j \in 1..Len(tasks) :
        tasks[i].task_name = tasks[j].task_name => i = j

\* C20: when a file read or write of add_task, log_time (its update of the
\* total included), delete_task, update_all_task_totals or
\* add_schedule_block fails after its retries, the call raises: it never
\* returns normally.
C20_FailuresAreSurfaced == failed => last.by /= ""

ReadStep ==
    \/ \E f \in BOOLEAN : GetTimeLogs(f, MayFail)
    \/ GetTasks(MayFail)
    \/ \E d \in DateArgs : GetScheduleBlocks(d, MayFail)

\* C22: get_time_logs, get_tasks and get_schedule_blocks never raise: a call
\* whose read fails after its retries returns an empty table, and no call of
\* the three changes a file.
C22_ReadsFallBackToEmpty ==
    /\ [](/\ \A f \in BOOLEAN :
                (f \/ cache = NoCache) => get_time_logs(f, FALSE) = <<>>
          /\ get_tasks(FALSE) = <<>>
          /\ \A d \in DateArgs : get_schedule_blocks(d, FALSE) = <<>>)
    /\ [][ReadStep => /\ last'.by = ""
                      /\ UNCHANGED <<logs, tasks, blocks>>
                      /\ (failed' /\ cache' /= cache) => cache'.df = <<>>
         ]_vars

\* A forced reload has failed on a file that holds a row, a task and a
\* block: the call returned the empty table.
C22_Witness ==
    /\ failed
    /\ last = Ended("ok")
    /\ logs /= <<>>
    /\ tasks /= <<>>
    /\ blocks /= <<>>
    /\ cache = Cached(<<>>)

\* C30: a get_time_logs whose read failed does not leave its empty table
\* cached: the next get_time_logs() whose read would succeed returns the rows
\* of the file as it then is.
C30_FallbackIsNotCached ==
    [][(failed /\ GetTimeLogs(FALSE, Works)) => cache'.df = logs]_vars

\* C24: after a successful "Save Changes", batches that delete or drop rows
\* included, every task that has rows in the time-log table as written has
\* as its total the sum of the durations of those rows.
C24_RecomputeReadsWrittenTable ==
    [][(/\ last' = Ended("ok")
        /\ cache' = NoCache
        /\ BulkEdit("cells", Works))
          => \A i \in 1..Len(tasks') :
                tasks'[i].task_name \in LogNames(logs')
                    => tasks'[i].total = SumDur(logs', tasks'[i].task_name)
      ]_vars

\* C28: in every time-log table that log_time and successful bulk edits
\* produce, the date of each row is the calendar day of its start_time.
C28_DateIsDayOfStart ==
    \A i \in 1..Len(logs) : logs[i].date = DateOf(logs[i].start)

\* C27: a write of the task file and an append to it do not exclude each
\* other: a row that add_task appends after a read-modify-write operation
\* has read the file and before its rename is not in the file the rename
\* leaves.
C27_AppendInWindowIsLost ==
    [][OtherRenames
          => \A i \in (Len(rmw.seen) + 1)..Len(tasks) :
                \A j \in 1..Len(tasks') : tasks'[j] /= tasks[i]
      ]_vars

\* A read-modify-write has ended whose rename replaced a file holding a row
\* appended since its read, and the file holds no such row.
C27_Witness ==
    /\ rmw.op = "done"
    /\ Len(rmw.over) > Len(rmw.seen)
    /\ SubSeq(rmw.over, 1, Len(rmw.seen)) = rmw.seen
    /\ tasks = rmw.df
    /\ \E i \in (Len(rmw.seen) + 1)..Len(rmw.over) :
          \A j \in 1..Len(tasks) : tasks[j] /= rmw.over[i]

(***************************************************************************)
(* Properties of the schedule.                                             *)
(***************************************************************************)
\* C12: no two schedule blocks of the same date overlap: for two rows with
\* equal dates, not both start1 < end2 and end1 > start2.
C12_NoOverlapOnADate ==
    \A i, j \in 1..Len(blocks) :
        (i /= j /\ blocks[i].date = blocks[j].date)
        => ~(/\ MinuteOf(blocks[i].start_time) < MinuteOf(blocks[j].end_time)
             /\ MinuteOf(blocks[i].end_time) > MinuteOf(blocks[j].start_time))

\* C13: every stored schedule block starts before it ends.
C13_StoredBlocksStartBeforeEnd ==
    \A i \in 1..Len(blocks) :
        MinuteOf(blocks[i].start_time) < MinuteOf(blocks[i].end_time)

\* C14: update_schedule_block and delete_schedule_block find rows by (date,
\* start_time, task_name).  With no such row they return False, raise
\* nothing and leave the file as it was.  Otherwise update changes nothing
\* but completed and notes, those only when given and only in the rows
\* found, and delete removes no row but the rows found.  This is so of
\* every call that can be made in every state the schedule reaches.
C14_UpdateAndDeleteByKey ==
    \A d \in DateArgs, t \in TimeArgs, n \in KeyNames, readOk, writeOk \in MayFail :
        LET hit == {i \in 1..Len(blocks) :
                       /\ blocks[i].date = d
                       /\ blocks[i].start_time = t
                       /\ blocks[i].task_name = n}
            del == delete_schedule_block(d, t, n, readOk, writeOk)
        IN /\ \A c \in CompletedArgs, x \in NotesArgs :
                LET upd == update_schedule_block(d, t, n, c, x, readOk, writeOk)
                IN /\ upd.ret \in {"true", "false"}
                   /\ hit = {} => upd.ret = "false"
                   /\ upd.ret = "false" => upd.file = blocks
                   /\ Len(upd.file) = Len(blocks)
                   /\ \A i \in 1..Len(blocks) :
                        /\ i \notin hit => upd.file[i] = blocks[i]
                        /\ upd.file[i].date = blocks[i].date
                        /\ upd.file[i].start_time = blocks[i].start_time
                        /\ upd.file[i].end_time = blocks[i].end_time
                        /\ upd.file[i].task_name = blocks[i].task_name
                        /\ c = NoArg => upd.file[i].completed = blocks[i].completed
                        /\ x = NoArg => upd.file[i].notes = blocks[i].notes
           /\ del.ret \in {"true", "false"}
           /\ hit = {} => del.ret = "false"
           /\ del.ret = "false" => del.file = blocks
           /\ del.ret = "true"
                => del.file = SelectRows(blocks, (1..Len(blocks)) \ hit)

\* A call has changed one row of two: the rows share the date and the start
\* time and differ in the task, and only the first is completed.
C14_Witness ==
    /\ Len(blocks) = 2
    /\ blocks[1].date = blocks[2].date
    /\ blocks[1].start_time = blocks[2].start_time
    /\ blocks[1].task_name /= blocks[2].task_name
    /\ blocks[1].completed
    /\ blocks[1].notes = "n"
    /\ ~blocks[2].completed
    /\ blocks[2].notes = ""
    /\ last = Ended("true")

(***************************************************************************)
(* Properties of the timer.                                                *)
(***************************************************************************)
\* The timer runs and its phase has no time left.
Expired == is_running /\ current_duration - elapsed <= 0

\* The poll completes a session in this step.
Completion == Poll /\ ~just_completed /\ just_completed'

\* C15: when a work session completes, the count goes up by one and the next
\* phase is the long break exactly when the count has reached the
\* sessions_before_long_break of the settings, the count then going back to
\* 0, and the short break otherwise; when a break completes, the next phase
\* is work.
C15_NextPhaseFollowsSettings ==
    [][Completion =>
         IF ~is_break
         THEN /\ is_break'
              /\ IF session_count + 1 >= sessions_before_long_break
                 THEN /\ remaining_time' = long_break_duration
                      /\ session_count' = 0
                 ELSE /\ remaining_time' = break_duration
                      /\ session_count' = session_count + 1
         ELSE /\ ~is_break'
              /\ remaining_time' = work_duration
      ]_vars

\* C16: reset_timer, from any state, leaves the work phase, a count of 0, the
\* whole work duration remaining, and the timer not running.
C16_ResetGivesInitialState ==
    [][ResetTimer =>
         /\ ~is_break'
         /\ session_count' = 0
         /\ remaining_time' = work_duration
         /\ ~is_running'
      ]_vars

\* The timer has been reset after its first work session completed: the
\* completion flag is still up, and the phase and count are those of a new
\* timer.
C16_Witness ==
    /\ just_completed
    /\ ~is_break
    /\ session_count = 0
    /\ remaining_time = work_duration
    /\ ~is_running
    /\ sounds = NoSound
    /\ elapsed = work_duration

\* C17: stop_timer stops the timer and leaves the phase, the remaining time
\* and the count as they were; while the timer is not running, neither
\* update_timer nor the completion poll changes them.
C17_StoppedTimerKeepsItsState ==
    [][/\ StopTimer
          => (~is_running' /\ UNCHANGED <<is_break, remaining_time, session_count>>)
       /\ (~is_running /\ (UpdateTimer \/ Poll))
          => UNCHANGED <<is_break, remaining_time, session_count>>
      ]_vars

\* The timer was stopped part of the way through a work session, and time
\* has passed since its remaining time was last computed.
C17_Witness ==
    /\ ~is_running
    /\ ~is_break
    /\ 0 < remaining_time
    /\ remaining_time < work_duration
    /\ work_duration - elapsed < remaining_time

C19_SoundsNameThePhaseThatEnded ==
    [][Completion =>
         sounds' = IF is_break THEN BreakCompleteSounds ELSE WorkCompleteSounds
      ]_vars

\* C23: the timer, once constructed and given the work duration of the
\* settings, is in the work phase, not running, with no session counted and
\* with the configured work duration left, whatever that duration is.
C23_InitialRemainingIsConfigured ==
    [][(TimerInit /\ \E work \in WorkSettings : LoadSettings(work))
          => /\ ~is_break'
             /\ ~is_running'
             /\ session_count' = 0
             /\ remaining_time' = work_minutes'
      ]_vars

\* The timer is in a long break: it is the only break without a counted
\* session, for complete_session sets the count to 0 on entering it and a
\* short break is entered with a count of 1 at least.
InLongBreak == is_break /\ session_count = 0

\* C26: while the timer runs in a long break, update_timer leaves
\* max(0, long_break_duration - elapsed) as the remaining time, in agreement
\* with the long_break_duration that complete_session set on entering it.
C26_LongBreakUsesLongDuration ==
    (is_running /\ InLongBreak)
        => update_timer = Max0(long_break_duration - elapsed)

\* C29: within a phase the remaining time never goes up: only reset_timer
\* or the passage to another phase may raise it, so a Pause followed by a
\* Start goes on from the paused value.
C29_RemainingNeverIncreasesInPhase ==
    [][remaining_time' > remaining_time
          => (ResetTimer \/ is_break' /= is_break)]_vars

(***************************************************************************)
(* Properties of _safe_file_operation.                                     *)
(***************************************************************************)
\* C4: during and after a 'write', whatever fails and wherever the process
\* dies, the destination holds its complete previous contents or the complete
\* new contents, and is not left without content it had.
C4_DestinationNeverPartial ==
    (req.op = "write" /\ req.data.given)
    => /\ files[Dest] = before \/ files[Dest] = File(req.data.lines)
       /\ before.lines /= <<>> => files[Dest].lines /= <<>>

\* C4 witness: the process died on a later attempt, between the writing of
\* the temporary file and the rename, with new contents that differ from the
\* old.
C4_Witness ==
    /\ pc = "crashed"
    /\ req.op = "write"
    /\ attempt > 0
    /\ files["time_logs.csv.tmp"] = File(req.data.lines)
    /\ files[Dest] = before
    /\ before /= File(req.data.lines)

\* C5: a call makes at most 3 attempts; a failed first or second attempt is
\* followed by the next attempt, a failed third attempt raises to the caller,
\* a call returns only from the attempt that succeeded, and every call that
\* is not killed ends.
C5_AtMostThreeAttempts ==
    /\ [](attempt < 3)
    /\ [][pc = "except" =>
            \/ pc' = "crashed"
            \/ attempt < 2 /\ pc' = "attempt" /\ attempt' = attempt + 1
            \/ attempt = 2 /\ pc' = "raised" /\ attempt' = attempt]_vars
    /\ [][pc' = "raised" => pc = "except" /\ attempt = 2]_vars
    /\ [][(pc \in Running /\ pc' = "returned")
            => pc \in {"attempt", "move"} /\ attempt' = attempt]_vars
    /\ [](pc \in Running => <>(pc \in Finished \cup {"crashed"}))

\* C5 witness: a write that failed three times has raised to its caller.
C5_Witness ==
    pc = "raised" /\ attempt = 2 /\ req.op = "write" /\ req.data.given

(***************************************************************************)
(* Properties of the repair pass.                                          *)
(***************************************************************************)
NonEmptyLine(line) == StripLine(line) /= <<"">>

\* The 1-based index of the first non-empty line, or one past the end.
FirstNonEmpty(read) ==
    IF \E i \in 1..Len(read) : NonEmptyLine(read[i])
    THEN CHOOSE i \in 1..Len(read) :
             /\ NonEmptyLine(read[i])
             /\ \A j \in 1..(i - 1) : ~NonEmptyLine(read[j])
    ELSE Len(read) + 1

\* A data line is kept when it has at least 6 fields and its first 6 pass
\* _validate_log_entry.
ClaimKeeps(line) ==
    /\ Len(StripLine(line)) >= 6
    /\ validate_log_entry(SubSeq(StripLine(line), 1, 6))

RECURSIVE KeptRows(_)
\* The kept ones among some data lines, each cut to 6 fields, in order.
KeptRows(read) ==
    IF read = <<>> THEN <<>>
    ELSE (IF ClaimKeeps(Head(read))
          THEN <<SubSeq(StripLine(Head(read)), 1, 6)>> ELSE <<>>)
         \o KeptRows(Tail(read))

DataLinesOf(read) == SubSeq(read, FirstNonEmpty(read) + 1, Len(read))

\* C6: a run of the repair pass right after a run that has cleaned the file
\* leaves the file exactly as that first run wrote it.
C6_SecondRunChangesNothing ==
    [][(printed = "cleaned" /\ printed' = "cleaned") => raw' = raw]_vars

\* C7: after a run on a file with a non-empty line, the file starts with the
\* canonical header, which stands for the first non-empty line read, and the
\* lines after it are the kept ones among the lines read after that line.
C7_HeaderReplacesFirstNonEmptyLine ==
    (printed = "cleaned" /\ FirstNonEmpty(lines) <= Len(lines))
    => raw = <<expected_header>> \o KeptRows(DataLinesOf(lines))

\* C8: of the data lines after the header a run keeps, in order and cut to 6
\* fields, exactly those with at least 6 fields whose first 6 pass
\* _validate_log_entry; the file it writes holds nothing but the header and
\* valid rows of 6 fields.
C8_KeepsExactlyTheValidRows ==
    printed = "cleaned"
    => LET kept == KeptRows(DataLinesOf(lines))
       IN /\ Len(raw) >= Len(kept)
          /\ Len(raw) <= Len(kept) + 1
          /\ SubSeq(raw, Len(raw) - Len(kept) + 1, Len(raw)) = kept
          /\ \A k \in 1..Len(raw) :
                \/ raw[k] = expected_header
                \/ Len(raw[k]) = 6 /\ validate_log_entry(raw[k])

\* C8 witness: a run has read a header, a valid row with stray columns and a
\* row with a bad cell, and has written the header and the valid row cut to 6.
C8_Witness ==
    /\ printed = "cleaned"
    /\ lines = <<expected_header, GoodRow \o <<"", "", "">>,
                 <<"A", "09:00", "09:25", "25.0", "2024-01-01", "work", "", "", "">>>>
    /\ raw = <<expected_header, GoodRow>>


\* C25: the repair pass replaces the time-log file as a whole: a process
\* killed during the rewrite leaves the file with its original contents or
\* with the cleaned contents, never with a part of them.
C25_RepairRewriteIsAtomic ==
    [][RepairCrash => (raw' = raw \/ raw' = Cleaned(raw))]_vars

====
